---- MODULE Spec2Model ----
(***************************************************************************)
(* Boot-task state machine of the sensor-swarm firmware: the retained      *)
(* register bank, the BootTask accessor (read_and_clear / write), the boot *)
(* sequence of main.rs, the boot-task dispatcher, the command layer's DFU  *)
(* command and the bootloader hand-off sequence (enter_dfu_mode).          *)
(*                                                                         *)
(* Spec         the device across boots and warm resets (main.rs).         *)
(* SpecHandoff  one call of enter_dfu_mode from any hardware state.        *)
(* SpecDevice   calls on one device manager, PiPico and BlackPill.         *)
(* SpecBank     reads, writes and resets on one register bank.             *)
(* SpecParser   CommandParser::parse on bounded strings.                   *)
(* SpecPacket   one radio packet: new, control setters, to/from bytes.     *)
(***************************************************************************)
EXTENDS Integers, Sequences, FiniteSets, TLC

\* ------------------------------------------------------------------ bounds
\* Raw register values explored are 0..MaxRaw and the test value 999.
MaxRaw == 5
\* API calls made on one manager or one register bank in a run.
MaxCalls == 5
\* Length of the command strings enumerated char by char.
MaxLen == 3
\* Longest payload handed to Packet::new.
MaxPayload == 34
\* Longest chunk of bytes one terminal read delivers, and number of reads.
MaxChunk == 3
MaxReads == 2
\* Number of log messages stored in the USB log queue over a run.
MaxMsgs == 17
\* Number of store calls on the key-value store.
MaxStores == 2

\* ------------------------------------------------------- program constants
\* BlackPillBackupRegisters::register_count
RegisterCount == 20
\* PiPicoBackupRegisters: registers: [u32; 8]
PiPicoRegisterCount == 8
\* Command::Unknown(String<64>)
UnknownCapacity == 64
\* MAX_PAYLOAD_SIZE
MaxPayloadSize == 32
\* core::mem::size_of::<Header>(): three u16, the control byte, payload_len
HeaderSize == 8
\* let bootloader_addr = 0x1FFF0000u32
BootloaderAddr == 536805376
\* const COMMAND_BUFFER_SIZE: usize = 256
CommandBufferSize == 256
\* const USB_LOG_QUEUE_SIZE: usize = 16; const USB_LOG_MESSAGE_SIZE: usize = 256
UsbLogQueueSize == 16
UsbLogMessageSize == 256
\* let mut log_msg = String::<512>::new()
LogMsgCapacity == 512
\* BlackPillKeyValueStore: key.len() > 32 || value.len() > 256; % 1000;
\* key_hash * 300 and [0u8; 300]; buffer[33]; EEPROM_STORAGE_SIZE = 64 * 1024
KeyLimit == 32
ValueLimit == 256
HashMod == 1000
EntrySize == 300
ValueLenOffset == 33
EepromStorageSize == 65536
\* BackupRegister::BootTask as usize
BootTaskReg == 0
\* BackupRegister::BootCounter as usize
BootCounterReg == 1
\* number of NVIC ICPR words cleared by clear_pending_interrupts (for i in 0..3)
NvicWords == 3

RawValues == (0..MaxRaw) \cup {999}

\* BootTask variants.  hw/types.rs declares None, UpdateFirmware and
\* RunSelfTest; DFUReboot is the variant used by commands/executor.rs:290
\* and lib.rs:111,122.
BootTasks == {"None", "UpdateFirmware", "RunSelfTest", "DFUReboot"}

\* `task as u32`: the discriminants of #[repr(u32)] enum BootTask
\* (None = 0, then 1, 2; DFUReboot as u32 == 3 by lib.rs:122).
TaskCode(task) ==
  CASE task = "None"           -> 0
    [] task = "UpdateFirmware" -> 1
    [] task = "RunSelfTest"    -> 2
    [] task = "DFUReboot"      -> 3

\* A decode that keeps only the two low bits of the raw value.
From_u32_masked(value) ==
  CASE value % 4 = 1 -> "UpdateFirmware"
    [] value % 4 = 2 -> "RunSelfTest"
    [] OTHER         -> "None"

\* impl From<u32> for BootTask: match value { 1 => .., 2 => .., _ => None }
From_u32(value) ==
  CASE value = 1 -> "UpdateFirmware"
    [] value = 2 -> "RunSelfTest"
    [] OTHER     -> "None"

VARIABLES
  registers,          \* the retained register bank, index -> u32
  pc,                 \* position of the firmware in the boot sequence
  dev,                \* the device manager's Option fields (TRUE = Some)
  raw_value,          \* local of read_and_clear
  boot_task,          \* local of init_rtc_and_boot_tasks
  executed,           \* which arm of execute_boot_task ran in this boot
  interrupts_enabled, \* PRIMASK clear
  systick_enabled,    \* SYST.CSR != 0
  rtc_initialized,    \* RTC peripheral brought up
  clocks_configured,  \* PLL / prescalers configured
  nvic_pending,       \* set of NVIC ICPR words with a pending bit
  handoff_log,        \* hand-off steps completed in this boot, in order
  slot0_src,          \* history: who wrote slot 0 last
  read_src,           \* history: slot0_src seen by this boot's read
  dispatch_count,     \* history: non-None dispatches since slot 0 was set
  platform,           \* which implementation the API calls run on
  handles,            \* live handles handed out per peripheral
  last_op,            \* the last call: [op, index, value (its argument)]
  ret,                \* what the last API call returned
  shadow,             \* history: last value written per slot; the packet serialised
  pre_reset,          \* history: the bank as it was when the last reset struck
  calls,              \* number of API calls made so far
  obj                 \* fields of the object a specification is about

vars == <<registers, pc, dev, raw_value, boot_task, executed,
          interrupts_enabled, systick_enabled, rtc_initialized,
          clocks_configured, nvic_pending, handoff_log,
          slot0_src, read_src, dispatch_count,
          platform, handles, last_op, ret, shadow, pre_reset, calls, obj>>

hwvars == <<interrupts_enabled, systick_enabled, rtc_initialized,
            clocks_configured, nvic_pending>>

histvars == <<slot0_src, read_src, dispatch_count>>

apivars == <<platform, handles, last_op, ret, shadow, pre_reset, calls, obj>>

\* No API call made yet.
NoOp == [op |-> "none", index |-> 0, value |-> 0]

\* The API-call variables while the boot sequence of main.rs runs: the
\* blackpill-f401 build, no direct API call.
ApiIdle ==
  /\ platform = "blackpill"
  /\ handles = [led |-> 0, usb |-> 0, rtc |-> 0]
  /\ last_op = NoOp
  /\ ret = "none"
  /\ shadow = <<>>
  /\ pre_reset = <<>>
  /\ calls = 0
  /\ obj = "none"

\* PiPicoDevice::new_internal: every peripheral Some, backup_registers None
NewDevice ==
  [pin25 |-> TRUE, usb |-> TRUE, rtc |-> TRUE, backup_registers |-> FALSE]

\* A write that lands in the slot after the one named.
WriteRegister_next(regs, index, value) == [regs EXCEPT ![index + 1] = value]

\* A write that lands in the first slot whatever the index.
WriteRegister_first(regs, index, value) == [regs EXCEPT ![0] = value]

\* BackupRegisters::write_register on the bank (index in range)
WriteRegister(regs, index, value) == [regs EXCEPT ![index] = value]

\* State of a device that has just come out of reset (power-on or warm).
ResetState ==
  /\ pc = "init_device_and_embassy"
  /\ dev = NewDevice
  /\ raw_value = 0
  /\ boot_task = "None"
  /\ executed = "none"
  /\ interrupts_enabled = TRUE
  /\ systick_enabled = FALSE
  /\ rtc_initialized = FALSE
  /\ clocks_configured = FALSE
  /\ nvic_pending = {}
  /\ handoff_log = <<>>
  /\ read_src = "none"

\* Power-on: slots 0 and 1 hold anything (unspecified after power loss).
Init ==
  /\ \E v0 \in RawValues, v1 \in RawValues :
       registers = [i \in 0..(RegisterCount - 1) |->
                      IF i = BootTaskReg THEN v0
                      ELSE IF i = BootCounterReg THEN v1 ELSE 0]
  /\ ResetState
  /\ slot0_src = "initial"
  /\ dispatch_count = 0
  /\ ApiIdle


\* ----------------------------------------------------------- boot sequence
\* main.rs init_device_and_embassy: init_embassy() configures the clock tree,
\* new_with_peripherals builds the device manager.
InitDeviceAndEmbassy ==
  /\ UNCHANGED apivars
  /\ pc = "init_device_and_embassy"
  /\ dev' = NewDevice
  /\ clocks_configured' = TRUE
  /\ pc' = "create_rtc"
  /\ UNCHANGED <<registers, raw_value, boot_task, executed, interrupts_enabled,
                 systick_enabled, rtc_initialized, nvic_pending, handoff_log,
                 histvars>>

\* init_rtc_and_boot_tasks, first statement: device_manager.create_rtc()
\* .expect(..).  create_rtc takes the rtc field (Err if already taken, and
\* expect then panics) and returns the register wrapper without storing it.
CreateRtc ==
  /\ UNCHANGED apivars
  /\ pc = "create_rtc"
  /\ IF dev.rtc
       THEN /\ dev' = [dev EXCEPT !.rtc = FALSE]
            /\ rtc_initialized' = TRUE
            /\ pc' = "read_register"
       ELSE /\ pc' = "panic"
            /\ UNCHANGED <<dev, rtc_initialized>>
  /\ UNCHANGED <<registers, raw_value, boot_task, executed, interrupts_enabled,
                 systick_enabled, clocks_configured, nvic_pending, handoff_log,
                 histvars>>

\* read_and_clear, first half: raw_value = read_register(BootTask slot)
ReadAndClear_read ==
  /\ UNCHANGED apivars
  /\ pc = "read_register"
  /\ raw_value' = registers[BootTaskReg]
  /\ read_src' = slot0_src
  /\ pc' = "write_register"
  /\ UNCHANGED <<registers, dev, boot_task, executed, hwvars, handoff_log,
                 slot0_src, dispatch_count>>

\* A read_and_clear that leaves the slot as it found it.
ClearValue_kept(raw) == raw

\* The value read_and_clear stores back: BootTask::None as u32.
ClearValue(raw) == TaskCode("None")

\* read_and_clear, second half: write_register(slot, None as u32), then
\* return BootTask::from(raw_value) into boot_task.
ReadAndClear_clear ==
  /\ UNCHANGED apivars
  /\ pc = "write_register"
  /\ registers' = WriteRegister(registers, BootTaskReg, ClearValue(raw_value))
  /\ boot_task' = From_u32(raw_value)
  /\ slot0_src' = "cleared"
  /\ pc' = "execute_boot_task"
  /\ UNCHANGED <<dev, raw_value, executed, hwvars, handoff_log, read_src,
                 dispatch_count>>

\* The arm of execute_boot_task's match taken for a task.
MatchArm_swapped(task) ==
  CASE task = "None"           -> "self_test"
    [] task = "UpdateFirmware" -> "update_firmware"
    [] task = "RunSelfTest"    -> "normal"

\* match boot_task { None => .., UpdateFirmware => .., RunSelfTest => .. }
MatchArm(task) ==
  CASE task = "None"           -> "normal"
    [] task = "UpdateFirmware" -> "update_firmware"
    [] task = "RunSelfTest"    -> "self_test"

\* execute_boot_task(boot_task): every arm only logs and the function returns.
\* The dispatch is counted when the match is entered, so a reset striking
\* inside an arm is a reset taken right after this step.
ExecuteBootTask ==
  /\ UNCHANGED apivars
  /\ pc = "execute_boot_task"
  /\ executed' = MatchArm(boot_task)
  /\ dispatch_count' = IF boot_task # "None" /\ dispatch_count < 2
                         THEN dispatch_count + 1 ELSE dispatch_count
  /\ pc' = "init_led_with_status"
  /\ UNCHANGED <<registers, dev, raw_value, boot_task, hwvars, handoff_log,
                 slot0_src, read_src>>

\* A bring-up that claims the indicator before the retention registers.
InitLedWithStatus_early ==
  /\ UNCHANGED apivars
  /\ pc \in {"create_rtc", "init_led_with_status"}
  /\ dev.pin25
  /\ dev' = [dev EXCEPT !.pin25 = FALSE]
  /\ pc' = IF pc = "create_rtc" THEN pc ELSE "init_usb_and_terminal"
  /\ UNCHANGED <<registers, raw_value, boot_task, executed, hwvars,
                 handoff_log, histvars>>

\* init_led_with_status: create_led().expect(..) takes pin25.
InitLedWithStatus ==
  /\ UNCHANGED apivars
  /\ pc = "init_led_with_status"
  /\ IF dev.pin25
       THEN /\ dev' = [dev EXCEPT !.pin25 = FALSE]
            /\ pc' = "init_usb_and_terminal"
       ELSE /\ pc' = "panic"
            /\ UNCHANGED dev
  /\ UNCHANGED <<registers, raw_value, boot_task, executed, hwvars,
                 handoff_log, histvars>>

\* init_usb_and_terminal: create_usb().await.expect(..) takes usb.
InitUsbAndTerminal ==
  /\ UNCHANGED apivars
  /\ pc = "init_usb_and_terminal"
  /\ IF dev.usb
       THEN /\ dev' = [dev EXCEPT !.usb = FALSE]
            /\ pc' = "app_run"
       ELSE /\ pc' = "panic"
            /\ UNCHANGED dev
  /\ UNCHANGED <<registers, raw_value, boot_task, executed, hwvars,
                 handoff_log, histvars>>


\* ------------------------------------------------------------------ resets
\* What a system reset does to everything but the retained registers.
ResetEffects ==
  /\ pc' = "init_device_and_embassy"
  /\ dev' = NewDevice
  /\ raw_value' = 0
  /\ boot_task' = "None"
  /\ executed' = "none"
  /\ interrupts_enabled' = TRUE
  /\ systick_enabled' = FALSE
  /\ rtc_initialized' = FALSE
  /\ clocks_configured' = FALSE
  /\ nvic_pending' = {}
  /\ handoff_log' = <<>>
  /\ read_src' = "none"

\* A warm reset (watchdog, reset pin, debugger) striking at any point.
WarmReset ==
  /\ UNCHANGED apivars
  /\ pc # "init_device_and_embassy"
  /\ ResetEffects
  /\ UNCHANGED <<registers, slot0_src, dispatch_count>>

\* ------------------------------------------------------------ the jump step
\* BlackPillDevice::jump_to_dfu_bootloader: read the vector table of the ROM
\* bootloader, set MSP, call the entry point; control never comes back.
JumpEffects ==
  /\ handoff_log' = Append(handoff_log, "jump_to_dfu_bootloader")
  /\ pc' = "bootloader"

\* -------------------------------------------------- operations while running
\* BootTaskAccessor::write(task): write_register(BootTask slot, task as u32)
Write(task) ==
  /\ UNCHANGED apivars
  /\ pc = "app_run"
  /\ registers' = WriteRegister(registers, BootTaskReg, TaskCode(task))
  /\ slot0_src' = task
  /\ dispatch_count' = 0
  /\ UNCHANGED <<pc, dev, raw_value, boot_task, executed, hwvars, handoff_log,
                 read_src>>

\* CommandExecutor::execute(Command::Reboot): device_manager.reboot()
ExecuteReboot ==
  /\ UNCHANGED apivars
  /\ pc = "app_run"
  /\ ResetEffects
  /\ UNCHANGED <<registers, slot0_src, dispatch_count>>

\* An accessor that yields a bank whatever the manager holds.
GetBackupRegisters_always(d) == TRUE

\* DeviceManagement::get_backup_registers: self.backup_registers.as_mut()
GetBackupRegisters(d) == d.backup_registers

\* CommandExecutor::execute(Command::RebootToDfu): with the register wrapper
\* at hand write the DFUReboot code and reboot, else jump straight away.
ExecuteRebootToDfu ==
  /\ UNCHANGED apivars
  /\ pc = "app_run"
  /\ IF GetBackupRegisters(dev)
       THEN /\ registers' = WriteRegister(registers, BootTaskReg,
                                          TaskCode("DFUReboot"))
            /\ slot0_src' = "DFUReboot"
            /\ dispatch_count' = 0
            /\ ResetEffects
       ELSE /\ JumpEffects
            /\ UNCHANGED <<registers, dev, raw_value, boot_task, executed,
                           hwvars, histvars>>

Next ==
  \/ InitDeviceAndEmbassy
  \/ CreateRtc
  \/ ReadAndClear_read
  \/ ReadAndClear_clear
  \/ ExecuteBootTask
  \/ InitLedWithStatus
  \/ InitUsbAndTerminal
  \/ \E task \in BootTasks : Write(task)
  \/ ExecuteReboot
  \/ ExecuteRebootToDfu
  \/ WarmReset

Spec == Init /\ [][Next]_vars


\* ------------------------------------------------- the bootloader hand-off
\* enter_dfu_mode: the order of its five statements.  The position names the
\* step about to run; StepAfter gives the statement that follows it.
StepAfter_rtc_skipped(step) ==
  CASE step = "disable_interrupts"       -> "deinitialize_clocks"
    [] step = "deinitialize_rtc"         -> "deinitialize_clocks"
    [] step = "deinitialize_clocks"      -> "clear_pending_interrupts"
    [] step = "clear_pending_interrupts" -> "jump_to_dfu_bootloader"

\* enter_dfu_mode, dfu_reboot.rs:39-52
StepAfter(step) ==
  CASE step = "disable_interrupts"       -> "deinitialize_rtc"
    [] step = "deinitialize_rtc"         -> "deinitialize_clocks"
    [] step = "deinitialize_clocks"      -> "clear_pending_interrupts"
    [] step = "clear_pending_interrupts" -> "jump_to_dfu_bootloader"

\* device.disable_interrupts(): cortex_m::interrupt::disable(); SYST.CSR = 0
DisableInterrupts ==
  /\ UNCHANGED apivars
  /\ pc = "disable_interrupts"
  /\ interrupts_enabled' = FALSE
  /\ systick_enabled' = FALSE
  /\ handoff_log' = Append(handoff_log, "disable_interrupts")
  /\ pc' = StepAfter("disable_interrupts")
  /\ UNCHANGED <<registers, dev, raw_value, boot_task, executed,
                 rtc_initialized, clocks_configured, nvic_pending, histvars>>

\* A deinitialize_rtc that gives up when the RTC was never initialised.
DeinitializeRtc_abort ==
  /\ UNCHANGED apivars
  /\ pc = "deinitialize_rtc"
  /\ rtc_initialized
  /\ handoff_log' = Append(handoff_log, "deinitialize_rtc")
  /\ pc' = StepAfter("deinitialize_rtc")
  /\ UNCHANGED <<registers, dev, raw_value, boot_task, executed, hwvars,
                 histvars>>

\* device.deinitialize_rtc(): logs only, the RTC is left as it is
DeinitializeRtc ==
  /\ UNCHANGED apivars
  /\ pc = "deinitialize_rtc"
  /\ handoff_log' = Append(handoff_log, "deinitialize_rtc")
  /\ pc' = StepAfter("deinitialize_rtc")
  /\ UNCHANGED <<registers, dev, raw_value, boot_task, executed, hwvars,
                 histvars>>

\* device.deinitialize_clocks(): logs only, the clock tree is left as it is
DeinitializeClocks ==
  /\ UNCHANGED apivars
  /\ pc = "deinitialize_clocks"
  /\ handoff_log' = Append(handoff_log, "deinitialize_clocks")
  /\ pc' = StepAfter("deinitialize_clocks")
  /\ UNCHANGED <<registers, dev, raw_value, boot_task, executed, hwvars,
                 histvars>>

\* device.clear_pending_interrupts(): for i in 0..3 { icpr[i] = 0xFFFFFFFF }
ClearPendingInterrupts ==
  /\ UNCHANGED apivars
  /\ pc = "clear_pending_interrupts"
  /\ nvic_pending' = nvic_pending \ (0..(NvicWords - 1))
  /\ handoff_log' = Append(handoff_log, "clear_pending_interrupts")
  /\ pc' = StepAfter("clear_pending_interrupts")
  /\ UNCHANGED <<registers, dev, raw_value, boot_task, executed,
                 interrupts_enabled, systick_enabled, rtc_initialized,
                 clocks_configured, histvars>>

\* device.jump_to_dfu_bootloader(): last statement of enter_dfu_mode
JumpToDfuBootloader ==
  /\ UNCHANGED apivars
  /\ pc = "jump_to_dfu_bootloader"
  /\ JumpEffects
  /\ UNCHANGED <<registers, dev, raw_value, boot_task, executed, hwvars,
                 histvars>>

\* A call of enter_dfu_mode(&device) made after clock and RTC setup, the
\* hardware in any state.
InitHandoff ==
  /\ registers = [i \in 0..(RegisterCount - 1) |-> 0]
  /\ pc = "disable_interrupts"
  /\ dev = [NewDevice EXCEPT !.rtc = FALSE]
  /\ raw_value = 0
  /\ boot_task = "None"
  /\ executed = "none"
  /\ interrupts_enabled \in BOOLEAN
  /\ systick_enabled \in BOOLEAN
  /\ rtc_initialized \in BOOLEAN
  /\ clocks_configured \in BOOLEAN
  /\ nvic_pending \in SUBSET (0..(NvicWords - 1))
  /\ handoff_log = <<>>
  /\ slot0_src = "initial"
  /\ read_src = "none"
  /\ dispatch_count = 0
  /\ ApiIdle

NextHandoff ==
  \/ DisableInterrupts
  \/ DeinitializeRtc
  \/ DeinitializeClocks
  \/ ClearPendingInterrupts
  \/ JumpToDfuBootloader

SpecHandoff == InitHandoff /\ [][NextHandoff]_vars

\* ------------------------------------------------ the device manager's API
\* Calls made on one manager instance, in any order, at most MaxCalls of them.
\* PiPicoDevice keeps each peripheral in an Option field; BlackPillDevice
\* (init_led / init_rtc) is handed the Peripherals struct by the caller and
\* hands it back.

\* The variables the manager's API leaves alone.
bootvars == <<registers, pc, raw_value, boot_task, executed, hwvars,
              handoff_log, histvars, shadow, pre_reset, obj>>

\* An Option field that is left in place instead of taken.
TakeField_peek(d, field) == d

\* Option::take on a field of the manager: the field is None afterwards.
TakeField(d, field) == [d EXCEPT ![field] = FALSE]

\* Bookkeeping of one API call and its result.
Called(op, result) ==
  /\ last_op' = [op |-> op, index |-> 0, value |-> 0]
  /\ ret' = result
  /\ calls' = calls + 1

\* The result of the wrapper constructor a claim calls with the handle it
\* took.  A constructor that fails:
WrapperNew_fails(field) == "Err"

\* PiPicoLed::new (led.rs:23-32), UsbManager::new and create_cdc_wrapper
\* (usb.rs:19-39), PiPicoBackupRegisters::new (backup_registers.rs:30-38):
\* each has Ok(..) as its only return.
WrapperNew(field) == "Ok"

\* let h = self.<field>.take().ok_or(..)?; <Wrapper>::new(h)? -- the take is
\* done when the constructor runs, its Err goes to the caller through `?`.
Claim(field, op, handle) ==
  IF dev[field]
    THEN /\ dev' = TakeField(dev, field)
         /\ IF WrapperNew(field) = "Ok"
              THEN /\ handles' = [handles EXCEPT ![handle] = @ + 1]
                   /\ Called(op, "Ok")
              ELSE /\ Called(op, "Err")
                   /\ UNCHANGED handles
    ELSE /\ Called(op, "Err")
         /\ UNCHANGED <<dev, handles>>

\* PiPicoDevice::create_led: pin25.take().ok_or(..)?; PiPicoLed::new(pin25)
PiPicoCreateLed ==
  /\ platform = "pipico" /\ calls < MaxCalls
  /\ Claim("pin25", "create_led", "led")
  /\ UNCHANGED <<bootvars, platform>>

\* PiPicoDevice::create_usb: usb.take().ok_or(..)?; UsbManager::new(usb)?;
\* manager.create_cdc_wrapper().await?
PiPicoCreateUsb ==
  /\ platform = "pipico" /\ calls < MaxCalls
  /\ Claim("usb", "create_usb", "usb")
  /\ UNCHANGED <<bootvars, platform>>

\* PiPicoDevice::create_rtc: rtc.take().ok_or(..)?;
\* Ok(PiPicoBackupRegisters::new(*rtc)?) -- the wrapper goes to the caller,
\* self.backup_registers is not assigned.
PiPicoCreateRtc ==
  /\ platform = "pipico" /\ calls < MaxCalls
  /\ Claim("rtc", "create_rtc", "rtc")
  /\ UNCHANGED <<bootvars, platform>>

\* PiPicoDevice::get_backup_registers: self.backup_registers.as_mut()
PiPicoGetBackupRegisters ==
  /\ platform = "pipico" /\ calls < MaxCalls
  /\ Called("get_backup_registers",
            IF GetBackupRegisters(dev) THEN "Some" ELSE "None")
  /\ UNCHANGED <<bootvars, platform, dev, handles>>

\* BlackPillDevice::init_led(peripherals): ptr::read(&p.PC13), then
\* ptr::read(&*p) as the remaining peripherals (PC13 still in them);
\* Ok((BlackPillLed::new(pc13), remaining)) on every call.
BlackPillInitLed ==
  /\ platform = "blackpill" /\ calls < MaxCalls
  /\ handles' = [handles EXCEPT !.led = @ + 1]
  /\ Called("init_led", "Ok")
  /\ UNCHANGED <<bootvars, platform, dev>>

\* BlackPillDevice::init_rtc(peripherals): ptr::read(&p.RTC), ptr::read(&*p)
\* as the remaining peripherals; Ok((BlackPillBackupRegisters::new(rtc),
\* remaining)) on every call.
BlackPillInitRtc ==
  /\ platform = "blackpill" /\ calls < MaxCalls
  /\ handles' = [handles EXCEPT !.rtc = @ + 1]
  /\ Called("init_rtc", "Ok")
  /\ UNCHANGED <<bootvars, platform, dev>>

\* BlackPillDevice::init_usb(peripherals): ptr::read of USB_OTG_FS, PA12 and
\* PA11, ptr::read(&*p) as the remaining peripherals, then
\* UsbManager::init_with_peripheral(..).await, which has no await inside and
\* no Err return: Ok((usb_wrapper, remaining)) on every call.
BlackPillInitUsb ==
  /\ platform = "blackpill" /\ calls < MaxCalls
  /\ handles' = [handles EXCEPT !.usb = @ + 1]
  /\ Called("init_usb", "Ok")
  /\ UNCHANGED <<bootvars, platform, dev>>

\* A freshly constructed manager of either implementation.
InitDevice ==
  /\ platform \in {"pipico", "blackpill"}
  /\ registers = [i \in 0..(RegisterCount - 1) |-> 0]
  /\ pc = "app_run"
  /\ dev = NewDevice
  /\ raw_value = 0
  /\ boot_task = "None"
  /\ executed = "none"
  /\ interrupts_enabled = TRUE
  /\ systick_enabled = FALSE
  /\ rtc_initialized = FALSE
  /\ clocks_configured = TRUE
  /\ nvic_pending = {}
  /\ handoff_log = <<>>
  /\ slot0_src = "initial"
  /\ read_src = "none"
  /\ dispatch_count = 0
  /\ handles = [led |-> 0, usb |-> 0, rtc |-> 0]
  /\ last_op = NoOp
  /\ ret = "none"
  /\ shadow = <<>>
  /\ pre_reset = <<>>
  /\ calls = 0
  /\ obj = "none"

NextDevice ==
  \/ PiPicoCreateLed
  \/ PiPicoCreateUsb
  \/ PiPicoCreateRtc
  \/ PiPicoGetBackupRegisters
  \/ BlackPillInitLed
  \/ BlackPillInitUsb
  \/ BlackPillInitRtc

SpecDevice == InitDevice /\ [][NextDevice]_vars

\* ------------------------------------------------------ the register bank
\* Calls made on one register bank through the BackupRegisters trait, and
\* resets of the device that holds it, at most MaxCalls steps in all.

\* The variables the register-bank API leaves alone.
bankframe == <<pc, dev, raw_value, boot_task, executed, hwvars, handoff_log,
               histvars, handles, platform, obj>>

\* register_count(): 20 on the STM32F401, registers.len() on the RP2040.
Count(p) == IF p = "pipico" THEN PiPicoRegisterCount ELSE RegisterCount

\* Indices and values the calls are made with: the first and the last slot,
\* and the first index past the bank.
BankIndices(p) == {0, Count(p) - 1, Count(p)}

BankValues == {1, MaxRaw}

\* No slot written yet by the present boot.
NotWritten == [i \in DOMAIN registers |-> -1]

\* read_register(index).  BlackPill: assert!(index < register_count()), then
\* rtc.read_backup_register(index).unwrap_or(0).  PiPico: the slot if
\* index < registers.len(), else a warning and 0.
BankRead(index) ==
  /\ calls < MaxCalls /\ ret # "Panic"
  /\ IF index < Count(platform)
       THEN /\ last_op' = [op |-> "read_register", index |-> index,
                           value |-> registers[index]]
            /\ ret' = "Value"
       ELSE IF platform = "pipico"
         THEN /\ last_op' = [op |-> "read_register", index |-> index,
                             value |-> 0]
              /\ ret' = "Value"
         ELSE /\ last_op' = [op |-> "read_register", index |-> index,
                             value |-> 0]
              /\ ret' = "Panic"
  /\ calls' = calls + 1
  /\ UNCHANGED <<registers, shadow, pre_reset, bankframe>>

\* write_register(index, value).  BlackPill: assert!(index <
\* register_count()), then rtc.write_backup_register(index, value).  PiPico:
\* store if index < registers.len(), else a warning and nothing.
BankWrite(index, value) ==
  /\ calls < MaxCalls /\ ret # "Panic"
  /\ last_op' = [op |-> "write_register", index |-> index, value |-> value]
  /\ IF index < Count(platform)
       THEN /\ registers' = WriteRegister(registers, index, value)
            /\ shadow' = [shadow EXCEPT ![index] = value]
            /\ ret' = "Unit"
       ELSE /\ ret' = IF platform = "pipico" THEN "Unit" ELSE "Panic"
            /\ UNCHANGED <<registers, shadow>>
  /\ calls' = calls + 1
  /\ UNCHANGED <<pre_reset, bankframe>>

\* A reset that clears the bank on every platform.
ResetBank_zeroed(p, regs) == [i \in DOMAIN regs |-> 0]

\* The bank the next boot finds: the RTC backup registers keep their values
\* across a system reset; PiPicoBackupRegisters::new builds registers: [0; 8].
ResetBank(p, regs) ==
  IF p = "pipico" THEN [i \in DOMAIN regs |-> 0] ELSE regs

\* A warm reset of the device, and the wrapper the next boot constructs.
BankReset ==
  /\ calls < MaxCalls
  /\ pre_reset' = registers
  /\ registers' = ResetBank(platform, registers)
  /\ shadow' = NotWritten
  /\ last_op' = [op |-> "reset", index |-> 0, value |-> 0]
  /\ ret' = "none"
  /\ calls' = calls + 1
  /\ UNCHANGED bankframe

\* A bank wrapper just constructed after power-on: the STM32 slots hold what
\* the lost backup domain left (slot 0 anything), the RP2040 array is zeroed.
InitBank ==
  /\ platform \in {"pipico", "blackpill"}
  /\ \E v0 \in {0} \cup BankValues :
       registers = [i \in 0..(Count(platform) - 1) |->
                      IF i = BootTaskReg /\ platform = "blackpill"
                        THEN v0 ELSE 0]
  /\ shadow = [i \in 0..(Count(platform) - 1) |-> -1]
  /\ pre_reset = registers
  /\ pc = "app_run"
  /\ dev = [NewDevice EXCEPT !.rtc = FALSE]
  /\ raw_value = 0
  /\ boot_task = "None"
  /\ executed = "none"
  /\ interrupts_enabled = TRUE
  /\ systick_enabled = FALSE
  /\ rtc_initialized = TRUE
  /\ clocks_configured = TRUE
  /\ nvic_pending = {}
  /\ handoff_log = <<>>
  /\ slot0_src = "initial"
  /\ read_src = "none"
  /\ dispatch_count = 0
  /\ handles = [led |-> 0, usb |-> 0, rtc |-> 1]
  /\ last_op = NoOp
  /\ ret = "none"
  /\ calls = 0
  /\ obj = "none"

NextBank ==
  \/ \E index \in BankIndices(platform) : BankRead(index)
  \/ \E index \in BankIndices(platform), value \in BankValues :
       BankWrite(index, value)
  \/ BankReset

SpecBank == InitBank /\ [][NextBank]_vars

\* --------------------------------------------------------- the pure calls
\* Calls of functions that touch no device state: the command parser and the
\* radio packet.  last_op holds the call and its argument, ret its result.

\* The variables a pure call leaves alone.
devframe == <<registers, pc, dev, raw_value, boot_task, executed, hwvars,
              handoff_log, histvars, platform, handles, pre_reset, calls>>

callframe == <<devframe, obj>>

\* The device while pure calls are made: the application is running.
IdleDevice ==
  /\ registers = [i \in 0..(RegisterCount - 1) |-> 0]
  /\ pc = "app_run"
  /\ dev = NewDevice
  /\ raw_value = 0
  /\ boot_task = "None"
  /\ executed = "none"
  /\ interrupts_enabled = TRUE
  /\ systick_enabled = FALSE
  /\ rtc_initialized = FALSE
  /\ clocks_configured = TRUE
  /\ nvic_pending = {}
  /\ handoff_log = <<>>
  /\ slot0_src = "initial"
  /\ read_src = "none"
  /\ dispatch_count = 0
  /\ platform = "blackpill"
  /\ handles = [led |-> 0, usb |-> 0, rtc |-> 0]
  /\ pre_reset = <<>>
  /\ calls = 0

\* ------------------------------------------------------ the command parser
\* A string is the sequence of its chars.  Every char is one byte of UTF-8
\* but the non-ASCII char, which is two.
UpperCase == <<"A", "B", "C", "D", "E", "F", "G", "H", "I", "J", "K", "L", "M",
               "N", "O", "P", "Q", "R", "S", "T", "U", "V", "W", "X", "Y", "Z">>

LowerCase == <<"a", "b", "c", "d", "e", "f", "g", "h", "i", "j", "k", "l", "m",
               "n", "o", "p", "q", "r", "s", "t", "u", "v", "w", "x", "y", "z">>

NonAscii == "é"

\* char::to_ascii_lowercase
ToAsciiLowercase(c) ==
  IF \E i \in 1..Len(UpperCase) : UpperCase[i] = c
    THEN LowerCase[CHOOSE i \in 1..Len(UpperCase) : UpperCase[i] = c]
    ELSE c

\* char::to_ascii_uppercase
ToAsciiUppercase(c) ==
  IF \E i \in 1..Len(LowerCase) : LowerCase[i] = c
    THEN UpperCase[CHOOSE i \in 1..Len(LowerCase) : LowerCase[i] = c]
    ELSE c

\* char::eq_ignore_ascii_case
EqIgnoreAsciiCase(a, b) == ToAsciiLowercase(a) = ToAsciiLowercase(b)

\* str::len: the length in bytes
RECURSIVE ByteLen(_)
ByteLen(str) ==
  IF str = <<>> THEN 0
  ELSE (IF Head(str) = NonAscii THEN 2 ELSE 1) + ByteLen(Tail(str))

\* The keywords of CommandParser::parse in the order they are tried, and the
\* command each gives.
Keywords ==
  <<
     [text |-> <<"s", "e", "n", "s", "o", "r", "s">>,
      cmd |-> "ReadSensors"],
     [text |-> <<"r", "e", "a", "d", "_", "s", "e", "n", "s", "o", "r", "s">>,
      cmd |-> "ReadSensors"],
     [text |-> <<"t", "e", "m", "p">>,
      cmd |-> "ReadTemperature"],
     [text |-> <<"t", "e", "m", "p", "e", "r", "a", "t", "u", "r", "e">>,
      cmd |-> "ReadTemperature"],
     [text |-> <<"h", "u", "m", "i", "d", "i", "t", "y">>,
      cmd |-> "ReadHumidity"],
     [text |-> <<"l", "i", "g", "h", "t">>,
      cmd |-> "ReadLight"],
     [text |-> <<"p", "r", "e", "s", "s", "u", "r", "e">>,
      cmd |-> "ReadPressure"],
     [text |-> <<"d", "e", "b", "u", "g">>,
      cmd |-> "GetDebugInfo"],
     [text |-> <<"d", "e", "b", "u", "g", "_", "i", "n", "f", "o">>,
      cmd |-> "GetDebugInfo"],
     [text |-> <<"s", "t", "a", "t", "u", "s">>,
      cmd |-> "GetStatus"],
     [text |-> <<"p", "i", "n", "g">>,
      cmd |-> "Ping"],
     [text |-> <<"h", "e", "l", "p">>,
      cmd |-> "Help"],
     [text |-> <<"?">>,
      cmd |-> "Help"],
     [text |-> <<"v", "e", "r", "s", "i", "o", "n">>,
      cmd |-> "Version"],
     [text |-> <<"r", "e", "b", "o", "o", "t">>,
      cmd |-> "Reboot"],
     [text |-> <<"d", "f", "u">>,
      cmd |-> "RebootToDfu"],
     [text |-> <<"r", "e", "b", "o", "o", "t", "_", "d", "f", "u">>,
      cmd |-> "RebootToDfu"]
  >>

\* matches_command: command_str.len() != cmd.len() gives false, else
\* command_str.chars().zip(cmd.chars()).all(eq_ignore_ascii_case)
MatchesCommand(command_str, cmd) ==
  /\ ByteLen(command_str) = ByteLen(cmd)
  /\ \A i \in 1..(IF Len(command_str) < Len(cmd)
                    THEN Len(command_str) ELSE Len(cmd)) :
       EqIgnoreAsciiCase(command_str[i], cmd[i])

\* heapless::String<64>::push_str on an empty string: Err, and nothing
\* pushed, if the bytes do not fit; the parser drops the Result.
PushStr(str) == IF ByteLen(str) <= UnknownCapacity THEN str ELSE <<>>

\* CommandParser::parse
ParseCommand(command_str) ==
  LET hits == {k \in 1..Len(Keywords) :
                 MatchesCommand(command_str, Keywords[k].text)}
  IN IF hits # {}
       THEN [cmd |-> Keywords[CHOOSE k \in hits : \A j \in hits : k <= j].cmd,
             text |-> <<>>]
       ELSE [cmd |-> "Unknown", text |-> PushStr(command_str)]

\* The strings parse is called with: every string of up to MaxLen chars over
\* a few chars; every keyword in lower, upper and mixed case; every proper
\* prefix of a keyword; and strings around the capacity of Unknown's text.
ParseChars == {"d", "f", "u", "D", NonAscii}

ShortStrings == UNION {[1..n -> ParseChars] : n \in 0..MaxLen}

KeywordTexts == {Keywords[k].text : k \in 1..Len(Keywords)}

KeywordInputs ==
  UNION {{w,
          [i \in 1..Len(w) |-> ToAsciiUppercase(w[i])],
          [i \in 1..Len(w) |->
             IF i % 2 = 1 THEN ToAsciiUppercase(w[i]) ELSE w[i]]}
         \cup {SubSeq(w, 1, n) : n \in 0..(Len(w) - 1)} : w \in KeywordTexts}

LongStrings ==
  {[i \in 1..n |-> "x"] : n \in {UnknownCapacity, UnknownCapacity + 1}}

\* The command keywords of the Help response, in the order it lists them.
HelpKeywords ==
  <<
     <<"h", "e", "l", "p">>,
     <<"s", "e", "n", "s", "o", "r", "s">>,
     <<"t", "e", "m", "p">>,
     <<"h", "u", "m", "i", "d", "i", "t", "y">>,
     <<"l", "i", "g", "h", "t">>,
     <<"p", "r", "e", "s", "s", "u", "r", "e">>,
     <<"d", "e", "b", "u", "g">>,
     <<"d", "e", "v", "i", "c", "e">>,
     <<"s", "t", "a", "t", "u", "s">>,
     <<"p", "i", "n", "g">>,
     <<"v", "e", "r", "s", "i", "o", "n">>,
     <<"r", "e", "b", "o", "o", "t">>,
     <<"d", "f", "u">>
  >>

HelpInputs == {HelpKeywords[k] : k \in 1..Len(HelpKeywords)}

ParseInputs ==
  ShortStrings \cup KeywordInputs \cup LongStrings \cup HelpInputs

\* parser.parse(command_str)
Parse(command_str) ==
  /\ last_op' = [op |-> "parse", index |-> 0, value |-> command_str]
  /\ ret' = ParseCommand(command_str)
  /\ UNCHANGED <<shadow, callframe>>

InitParser ==
  /\ IdleDevice
  /\ last_op = NoOp
  /\ ret = "none"
  /\ shadow = <<>>
  /\ obj = "none"

NextParser == \E command_str \in ParseInputs : Parse(command_str)

SpecParser == InitParser /\ [][NextParser]_vars

\* ------------------------------------------------------- the radio packet
\* One packet's life: Packet::new, setters of the control flags, to_bytes and
\* from_bytes of the bytes produced.  A packet is the record of the Header
\* fields and the payload array; control is the byte of the bitfield.

\* Bit positions of PacketControl, least significant first.
ControlBits == [ack_request |-> 0, ack_response |-> 1, emergency |-> 2,
                retransmit |-> 3]

\* The payloads Packet::new is called with: every length up to MaxPayload,
\* filled with consecutive byte values from a start value.
Payload(len, start) == [i \in 1..len |-> (start + i) % 256]

PayloadInputs ==
  {Payload(len, start) : len \in 0..MaxPayload, start \in {0, 250}}

\* A payload length that is always the size of the array.
PayloadLen_full(len) == MaxPayloadSize

\* payload.len().min(MAX_PAYLOAD_SIZE) as u8
PayloadLen(len) == (IF len < MaxPayloadSize THEN len ELSE MaxPayloadSize) % 256

\* let copy_len = payload.len().min(MAX_PAYLOAD_SIZE)
CopyLen(len) == IF len < MaxPayloadSize THEN len ELSE MaxPayloadSize

\* Packet::new: payload: [0; 32], then payload[..copy_len] copied
NewPacket(sender_id, target_id, sequence_number, payload) ==
  [sender_id |-> sender_id,
   target_id |-> target_id,
   sequence_number |-> sequence_number,
   control |-> 0,
   payload_len |-> PayloadLen(Len(payload)),
   payload |-> [i \in 1..MaxPayloadSize |->
                  IF i <= CopyLen(Len(payload)) THEN payload[i] ELSE 0]]

\* Packet::payload_data: &self.payload[..self.header.payload_len as usize]
PayloadData(packet) == SubSeq(packet.payload, 1, packet.payload_len)

\* PacketControl setter of one flag: the bit is cleared, then set to v.
SetBit(control, bit, v) ==
  LET weight == 2 ^ bit
      cleared == control - ((control \div weight) % 2) * weight
  IN cleared + (IF v THEN weight ELSE 0)

\* A u16 laid out most significant byte first.
U16ToBytes_be(v) == <<v \div 256, v % 256>>

\* A u16 field of the #[repr(C)] Header in memory (little-endian target)
U16ToBytes(v) == <<v % 256, v \div 256>>

\* read_unaligned of a u16 field
U16FromBytes(lo, hi) == lo + 256 * hi

\* Packet::to_bytes: the Header's bytes, then the payload array
ToBytes(packet) ==
  U16ToBytes(packet.sender_id) \o U16ToBytes(packet.target_id)
    \o U16ToBytes(packet.sequence_number)
    \o <<packet.control, packet.payload_len>> \o packet.payload

\* Packet::from_bytes: read_unaligned of the Header, payload copied from
\* bytes[header_size..]
FromBytes(bytes) ==
  [sender_id |-> U16FromBytes(bytes[1], bytes[2]),
   target_id |-> U16FromBytes(bytes[3], bytes[4]),
   sequence_number |-> U16FromBytes(bytes[5], bytes[6]),
   control |-> bytes[7],
   payload_len |-> bytes[8],
   payload |-> SubSeq(bytes, HeaderSize + 1, HeaderSize + MaxPayloadSize)]

\* let packet = Packet::new(sender_id, target_id, sequence_number, payload)
PacketNew(sender_id, target_id, sequence_number, payload) ==
  /\ last_op.op = "none"
  /\ last_op' = [op |-> "new", index |-> 0, value |-> payload]
  /\ ret' = NewPacket(sender_id, target_id, sequence_number, payload)
  /\ UNCHANGED <<shadow, callframe>>

\* packet.header.control.set_<flag>(v)
SetControlFlag(flag, v) ==
  /\ last_op.op \in {"new", "set_flag"}
  /\ last_op' = [op |-> "set_flag", index |-> ControlBits[flag], value |-> v]
  /\ ret' = [ret EXCEPT !.control = SetBit(@, ControlBits[flag], v)]
  /\ UNCHANGED <<shadow, callframe>>

\* let bytes = packet.to_bytes(); the packet is kept in shadow
PacketToBytes ==
  /\ last_op.op \in {"new", "set_flag"}
  /\ last_op' = [op |-> "to_bytes", index |-> 0, value |-> 0]
  /\ shadow' = ret
  /\ ret' = ToBytes(ret)
  /\ UNCHANGED callframe

\* Packet::from_bytes(&bytes)
PacketFromBytes ==
  /\ last_op.op = "to_bytes"
  /\ last_op' = [op |-> "from_bytes", index |-> 0, value |-> 0]
  /\ ret' = FromBytes(ret)
  /\ UNCHANGED <<shadow, callframe>>

InitPacket ==
  /\ IdleDevice
  /\ last_op = NoOp
  /\ ret = "none"
  /\ shadow = <<>>
  /\ obj = "none"

NextPacket ==
  \/ \E sender_id \in {258, 65535}, target_id \in {0, 65535},
        sequence_number \in {0, 513}, payload \in PayloadInputs :
       PacketNew(sender_id, target_id, sequence_number, payload)
  \/ \E flag \in DOMAIN ControlBits, v \in BOOLEAN : SetControlFlag(flag, v)
  \/ PacketToBytes
  \/ PacketFromBytes

SpecPacket == InitPacket /\ [][NextPacket]_vars

\* ------------------------------------------------------- inside the jump
\* The statements of BlackPillDevice::jump_to_dfu_bootloader one by one.  obj
\* holds the system memory words at the bootloader base, the two locals, the
\* main stack pointer, the address control is at (0: the firmware) and the
\* statements done.

\* The order of the statements: read_volatile(base), read_volatile(base + 4),
\* msp::write(stack_ptr), bootloader_entry().  A jump that sets the stack
\* pointer before it reads the entry address:
JumpStepAfter_msp_first(step) ==
  CASE step = "read_stack_ptr"    -> "write_msp"
    [] step = "write_msp"         -> "read_reset_vector"
    [] step = "read_reset_vector" -> "call_entry"
    [] step = "call_entry"        -> "bootloader"

\* device.rs:313-323
JumpStepAfter(step) ==
  CASE step = "read_stack_ptr"    -> "read_reset_vector"
    [] step = "read_reset_vector" -> "write_msp"
    [] step = "write_msp"         -> "call_entry"
    [] step = "call_entry"        -> "bootloader"

JumpDone(step) == [obj EXCEPT !.log = Append(@, step)]

\* let stack_ptr = read_volatile(bootloader_addr as *const u32)
JumpReadStackPtr ==
  /\ pc = "read_stack_ptr"
  /\ obj' = [JumpDone("read_stack_ptr") EXCEPT
               !.stack_ptr = obj.rom[BootloaderAddr]]
  /\ pc' = JumpStepAfter("read_stack_ptr")
  /\ UNCHANGED <<registers, dev, raw_value, boot_task, executed, hwvars,
                 handoff_log, histvars, platform, handles, last_op, ret,
                 shadow, pre_reset, calls>>

\* let reset_vector = read_volatile((bootloader_addr + 4) as *const u32)
JumpReadResetVector ==
  /\ pc = "read_reset_vector"
  /\ obj' = [JumpDone("read_reset_vector") EXCEPT
               !.reset_vector = obj.rom[BootloaderAddr + 4]]
  /\ pc' = JumpStepAfter("read_reset_vector")
  /\ UNCHANGED <<registers, dev, raw_value, boot_task, executed, hwvars,
                 handoff_log, histvars, platform, handles, last_op, ret,
                 shadow, pre_reset, calls>>

\* cortex_m::register::msp::write(stack_ptr)
JumpWriteMsp ==
  /\ pc = "write_msp"
  /\ obj' = [JumpDone("write_msp") EXCEPT !.msp = obj.stack_ptr]
  /\ pc' = JumpStepAfter("write_msp")
  /\ UNCHANGED <<registers, dev, raw_value, boot_task, executed, hwvars,
                 handoff_log, histvars, platform, handles, last_op, ret,
                 shadow, pre_reset, calls>>

\* bootloader_entry(): control goes to the address in reset_vector
JumpCallEntry ==
  /\ pc = "call_entry"
  /\ obj' = [JumpDone("call_entry") EXCEPT !.at = obj.reset_vector]
  /\ JumpEffects
  /\ UNCHANGED <<registers, dev, raw_value, boot_task, executed, hwvars,
                 histvars, platform, handles, last_op, ret, shadow,
                 pre_reset, calls>>

\* jump_to_dfu_bootloader entered at the end of the hand-off; the two words
\* of system memory hold any values, the locals are not yet assigned.
InitJump ==
  /\ registers = [i \in 0..(RegisterCount - 1) |-> 0]
  /\ pc = "read_stack_ptr"
  /\ dev = [NewDevice EXCEPT !.rtc = FALSE]
  /\ raw_value = 0
  /\ boot_task = "None"
  /\ executed = "none"
  /\ interrupts_enabled = FALSE
  /\ systick_enabled = FALSE
  /\ rtc_initialized \in BOOLEAN
  /\ clocks_configured \in BOOLEAN
  /\ nvic_pending = {}
  /\ handoff_log = <<"disable_interrupts", "deinitialize_rtc",
                    "deinitialize_clocks", "clear_pending_interrupts">>
  /\ slot0_src = "initial"
  /\ read_src = "none"
  /\ dispatch_count = 0
  /\ platform = "blackpill"
  /\ handles = [led |-> 0, usb |-> 0, rtc |-> 1]
  /\ last_op = NoOp
  /\ ret = "none"
  /\ shadow = <<>>
  /\ pre_reset = <<>>
  /\ calls = 0
  /\ \E sp \in 1..MaxRaw, entry \in 1..MaxRaw, unassigned \in {0, 999} :
       obj = [rom |-> (BootloaderAddr :> sp) @@ (BootloaderAddr + 4 :> entry),
              stack_ptr |-> unassigned,
              reset_vector |-> unassigned,
              msp |-> 0,
              at |-> 0,
              log |-> <<>>]

NextJump ==
  \/ JumpReadStackPtr
  \/ JumpReadResetVector
  \/ JumpWriteMsp
  \/ JumpCallEntry

SpecJump == InitJump /\ [][NextJump]_vars

\* ------------------------------------------------------ InputHandler
\* obj holds the handler's command_buffer, and for the record every printable
\* byte the terminal delivered (received), the text of every command
\* returned (returned) and the number of calls (reads).

\* Bytes the terminal delivers in the model: 'a', space, carriage return.
InputBytes == {"a", " ", "\r"}

\* 32..=126
Printable(byte) == byte \in {"a", " "}

\* temp_buffer[..bytes_read]: what one read_bytes call delivers.
Chunks == UNION {[1..n -> InputBytes] : n \in 0..MaxChunk}

RECURSIVE TrimStart(_)
TrimStart(s) ==
  IF s # <<>> /\ Head(s) = " " THEN TrimStart(Tail(s)) ELSE s

RECURSIVE TrimEnd(_)
TrimEnd(s) ==
  IF s # <<>> /\ s[Len(s)] = " "
    THEN TrimEnd(SubSeq(s, 1, Len(s) - 1))
    ELSE s

\* str::trim
Trim(s) == TrimEnd(TrimStart(s))

\* The for loop over the received bytes: the buffer after it and what the
\* call returns.  A return inside the loop ends it; the bytes after it are
\* in the local temp_buffer.
RECURSIVE ProcessBytes(_, _)
ProcessBytes(buffer, bytes) ==
  IF bytes = <<>>
    THEN [command_buffer |-> buffer, kind |-> "None", text |-> <<>>]
    ELSE LET byte == Head(bytes) IN
      CASE byte \in {"\n", "\r"} ->
             IF buffer # <<>>
               THEN [command_buffer |-> <<>>, kind |-> "Some",
                     text |-> Trim(buffer)]
               ELSE ProcessBytes(buffer, Tail(bytes))
        [] byte \in {"BS", "DEL"} ->    \* b'\x08' | b'\x7f'
             IF buffer # <<>>
               THEN ProcessBytes(SubSeq(buffer, 1, Len(buffer) - 1),
                                 Tail(bytes))
               ELSE ProcessBytes(buffer, Tail(bytes))
        [] Printable(byte) ->
             IF Len(buffer) < CommandBufferSize - 1
               THEN ProcessBytes(Append(buffer, byte), Tail(bytes))
               ELSE ProcessBytes(buffer, Tail(bytes))
        [] OTHER -> ProcessBytes(buffer, Tail(bytes))

\* InputHandler::read_command, terminal.read_bytes returning Ok(count)
ReadCommand(bytes) ==
  /\ obj.reads < MaxReads
  /\ LET r == ProcessBytes(obj.command_buffer, bytes) IN
       /\ obj' = [command_buffer |-> r.command_buffer,
                  received |-> obj.received \o SelectSeq(bytes, Printable),
                  returned |-> obj.returned \o r.text,
                  reads |-> obj.reads + 1]
       /\ ret' = [kind |-> r.kind, text |-> r.text]
  /\ last_op' = [op |-> "read_command", index |-> 0, value |-> bytes]
  /\ UNCHANGED <<devframe, shadow>>

\* InputHandler::read_command, terminal.read_bytes returning Err
ReadCommandDisconnected ==
  /\ obj.reads < MaxReads
  /\ obj' = [obj EXCEPT !.reads = @ + 1]
  /\ ret' = [kind |-> "Err", text |-> <<>>]
  /\ last_op' = [op |-> "read_command", index |-> 0, value |-> <<>>]
  /\ UNCHANGED <<devframe, shadow>>

\* InputHandler::new
InitInput ==
  /\ IdleDevice
  /\ last_op = NoOp
  /\ ret = [kind |-> "none", text |-> <<>>]
  /\ shadow = <<>>
  /\ obj = [command_buffer |-> <<>>, received |-> <<>>, returned |-> <<>>,
            reads |-> 0]

NextInput ==
  \/ \E bytes \in Chunks : ReadCommand(bytes)
  \/ ReadCommandDisconnected

SpecInput == InitInput /\ [][NextInput]_vars

\* ------------------------------------------------------ USB log queue
\* obj holds USB_LOG_QUEUE (0 for None, a message's number for Some),
\* USB_LOG_QUEUE_HEAD and USB_LOG_QUEUE_TAIL, and for the record the messages
\* stored by queue_usb_log_str (accepted) and the messages returned by
\* dequeue_usb_log_message (dequeued), in order.  The callers are tasks of
\* one executor and neither function awaits, so each call is one step.

\* (i + 1) % USB_LOG_QUEUE_SIZE
NextIndex(i) == (i + 1) % UsbLogQueueSize

\* A queue that never reports full:
QueueFull_never(head, tail) == FALSE

\* next_head == USB_LOG_QUEUE_TAIL
QueueFull(head, tail) == NextIndex(head) = tail

\* A dequeue that takes the newest message:
DequeueIndex_newest(head, tail) ==
  (head + UsbLogQueueSize - 1) % UsbLogQueueSize

\* USB_LOG_QUEUE[USB_LOG_QUEUE_TAIL].take()
DequeueIndex(head, tail) == tail

\* Lengths of the messages queued in the model: one that fits
\* String<USB_LOG_MESSAGE_SIZE>, one that does not.
MessageLens == {UsbLogMessageSize, UsbLogMessageSize + 1}

\* Messages in the queue, oldest first.
RECURSIVE Pending(_, _, _)
Pending(queue, head, tail) ==
  IF head = tail
    THEN <<>>
    ELSE <<queue[tail]>> \o Pending(queue, head, NextIndex(tail))

\* queue_usb_log_str(message): the message of this call is numbered after
\* the messages stored so far.
QueueUsbLogStr(len) ==
  /\ Len(obj.accepted) < MaxMsgs
  /\ LET id == Len(obj.accepted) + 1
         next_head == NextIndex(obj.head)
     IN IF ~QueueFull(obj.head, obj.tail) /\ len <= UsbLogMessageSize
          THEN obj' = [obj EXCEPT !.queue[obj.head] = id,
                                  !.head = next_head,
                                  !.accepted = Append(@, id)]
          ELSE obj' = obj
  /\ last_op' = [op |-> "queue_usb_log_str", index |-> obj.head,
                 value |-> len]
  /\ ret' = [kind |-> "unit", msg |-> 0]
  /\ UNCHANGED <<devframe, shadow>>

\* dequeue_usb_log_message()
DequeueUsbLogMessage ==
  /\ IF obj.head # obj.tail
       THEN LET i == DequeueIndex(obj.head, obj.tail)
                message == obj.queue[i]
            IN /\ obj' = [obj EXCEPT
                            !.queue[i] = 0,
                            !.tail = NextIndex(obj.tail),
                            !.dequeued = IF message = 0
                                           THEN @
                                           ELSE Append(@, message)]
               /\ ret' = IF message = 0
                           THEN [kind |-> "None", msg |-> 0]
                           ELSE [kind |-> "Some", msg |-> message]
       ELSE /\ obj' = obj
            /\ ret' = [kind |-> "None", msg |-> 0]
  /\ last_op' = [op |-> "dequeue_usb_log_message", index |-> obj.tail,
                 value |-> 0]
  /\ UNCHANGED <<devframe, shadow>>

\* The statics as initialised: every slot None, both indices 0.
InitUsbLog ==
  /\ IdleDevice
  /\ last_op = NoOp
  /\ ret = [kind |-> "none", msg |-> 0]
  /\ shadow = <<>>
  /\ obj = [queue |-> [i \in 0..(UsbLogQueueSize - 1) |-> 0],
            head |-> 0,
            tail |-> 0,
            accepted |-> <<>>,
            dequeued |-> <<>>]

NextUsbLog ==
  \/ \E len \in MessageLens : QueueUsbLogStr(len)
  \/ DequeueUsbLogMessage

SpecUsbLog == InitUsbLog /\ [][NextUsbLog]_vars

\* ------------------------------------------------------ Terminal
\* obj holds Terminal.initialized and the connected flag of its
\* UsbCdcWrapper, and for the record whether a wait has completed with no
\* failed transfer since (live), the number of packets handed to the CDC
\* class (transfers) and the number of completed waits (waits).

\* A terminal that reports only its own flag:
IsConnected_initialized(t) == t.initialized

\* Terminal::is_connected: self.initialized && self.usb_cdc.is_connected()
IsConnected(t) == t.initialized /\ t.connected

\* Outcomes of one packet transfer of the CDC class; a read can also time
\* out with no data.
Outcomes == {"Ok", "Err", "Timeout"}

\* Lengths of the messages logged in the model: with "\r\n" appended one
\* fits String<512>, one does not.
LogLens == {1, LogMsgCapacity - 1}

\* UsbCdcWrapper::write / read: the wrapper after the call, the result, and
\* whether a packet went to the CDC class.
CdcTransfer(t, outcome) ==
  IF ~t.connected
    THEN [t |-> t, result |-> "Err"]
    ELSE IF outcome = "Err"
           THEN [t |-> [t EXCEPT !.connected = FALSE,
                                 !.live = FALSE,
                                 !.transfers = @ + 1],
                 result |-> "Err"]
           ELSE [t |-> [t EXCEPT !.transfers = @ + 1], result |-> "Ok"]

TerminalCalled(op, value, result) ==
  /\ last_op' = [op |-> op, index |-> 0, value |-> value]
  /\ ret' = result
  /\ UNCHANGED <<devframe, shadow>>

\* Terminal::init: usb_cdc.wait_connection().await; initialized = true
TerminalInit ==
  /\ obj.waits < MaxCalls
  /\ obj' = [obj EXCEPT !.connected = TRUE, !.initialized = TRUE,
                        !.live = TRUE, !.waits = @ + 1]
  /\ TerminalCalled("init", 0, "Ok")

\* Terminal::wait_connection
TerminalWaitConnection ==
  /\ obj.waits < MaxCalls
  /\ obj' = [obj EXCEPT !.connected = TRUE, !.initialized = TRUE,
                        !.live = TRUE, !.waits = @ + 1]
  /\ TerminalCalled("wait_connection", 0, "unit")

\* Terminal::write_logs(message)
WriteLogs(len, outcome) ==
  /\ obj.transfers < MaxCalls
  /\ IF ~IsConnected(obj)
       THEN /\ obj' = obj
            /\ TerminalCalled("write_logs", len, "Err")
       ELSE IF len + 2 <= LogMsgCapacity
              THEN LET r == CdcTransfer(obj, outcome) IN
                     /\ obj' = r.t
                     /\ TerminalCalled("write_logs", len, r.result)
              ELSE /\ obj' = obj
                   /\ TerminalCalled("write_logs", len, "Err")

\* Terminal::write_bytes(data)
WriteBytes(outcome) ==
  /\ obj.transfers < MaxCalls
  /\ IF ~IsConnected(obj)
       THEN /\ obj' = obj
            /\ TerminalCalled("write_bytes", 0, "Err")
       ELSE LET r == CdcTransfer(obj, outcome) IN
              /\ obj' = r.t
              /\ TerminalCalled("write_bytes", 0, r.result)

\* Terminal::read_bytes(buffer)
ReadBytes(outcome) ==
  /\ obj.transfers < MaxCalls
  /\ IF ~IsConnected(obj)
       THEN /\ obj' = obj
            /\ TerminalCalled("read_bytes", 0, "Err")
       ELSE LET r == CdcTransfer(obj, outcome) IN
              /\ obj' = r.t
              /\ TerminalCalled("read_bytes", 0, r.result)

\* Terminal::new(usb_cdc), the wrapper fresh or already waited on.
InitTerminal ==
  /\ IdleDevice
  /\ last_op = NoOp
  /\ ret = "none"
  /\ shadow = <<>>
  /\ \E connected \in BOOLEAN :
       obj = [initialized |-> FALSE, connected |-> connected,
              live |-> FALSE, transfers |-> 0, waits |-> 0]

NextTerminal ==
  \/ TerminalInit
  \/ TerminalWaitConnection
  \/ \E len \in LogLens, outcome \in {"Ok", "Err"} : WriteLogs(len, outcome)
  \/ \E outcome \in {"Ok", "Err"} : WriteBytes(outcome)
  \/ \E outcome \in Outcomes : ReadBytes(outcome)

SpecTerminal == InitTerminal /\ [][NextTerminal]_vars

\* ------------------------------------------------------ key-value store
\* obj holds BlackPillKeyValueStore.initialized, the entries written to the
\* storage region (flash: relative address -> 300 bytes; an address not in it
\* is erased, every byte 0xFF), the number of store calls and, for the
\* record, the key and value of the latest store call and whether the store
\* was initialised when it was made.

\* `as u8`
ToU8(n) == n % 256

RECURSIVE SumBytes(_)
SumBytes(s) == IF s = <<>> THEN 0 ELSE Head(s) + SumBytes(Tail(s))

\* key.bytes().fold(0u32, |acc, b| acc.wrapping_add(b as u32)) % 1000; the
\* sum of the bytes of a key of the model is far below 2^32.
KeyHash(key) == SumBytes(key) % HashMod

\* let address = key_hash * 300
EntryAddress(key) == KeyHash(key) * EntrySize

\* BlackPillFlashStorage::is_valid_address
IsValidAddress(address) == address < EepromStorageSize

\* The range test of BlackPillFlashStorage::read and write
RangeOk(address, len) ==
  IsValidAddress(address) /\ IsValidAddress(address + len - 1)

\* The 300-byte buffer store builds: buffer[0] = key length,
\* buffer[1..1 + key_len] = key, buffer[33] = value.len() as u8,
\* buffer[34..34 + value_len] = value, the rest 0.  Index i here is index
\* i - 1 of the array.
EntryOf(key, value) ==
  [i \in 1..EntrySize |->
     IF i = 1 THEN ToU8(Len(key))
     ELSE IF i - 1 <= Len(key) THEN key[i - 1]
     ELSE IF i - 1 = ValueLenOffset THEN ToU8(Len(value))
     ELSE IF i - 1 > ValueLenOffset /\ i - 1 <= ValueLenOffset + Len(value)
       THEN value[i - 1 - ValueLenOffset]
     ELSE 0]

\* What storage.read gives for an entry: the bytes written, or erased flash.
ReadEntry(flash, address) ==
  IF address \in DOMAIN flash
    THEN flash[address]
    ELSE [i \in 1..EntrySize |-> 255]

\* The result of retrieve(key, buffer) for a buffer of buflen bytes.
RetrieveResult(flash, key, buflen) ==
  LET address == EntryAddress(key)
      entry_buffer == ReadEntry(flash, address)
      stored_key_len == entry_buffer[1]
      value_len == entry_buffer[ValueLenOffset + 1]
  IN IF ~RangeOk(address, EntrySize)
       THEN [kind |-> "Err", data |-> <<>>]
     ELSE IF stored_key_len = 0 \/ stored_key_len > KeyLimit
       THEN [kind |-> "Err", data |-> <<>>]
     ELSE IF SubSeq(entry_buffer, 2, 1 + stored_key_len) # key
       THEN [kind |-> "Err", data |-> <<>>]
     ELSE IF value_len > buflen
       THEN [kind |-> "Err", data |-> <<>>]
     ELSE [kind |-> "Ok",
           data |-> SubSeq(entry_buffer, ValueLenOffset + 2,
                           ValueLenOffset + 1 + value_len)]

\* Keys of the model as byte sequences: "a", "ml" (byte sum 217), "mm" (218),
\* 32 times "z", and a key of 33 bytes.
KvKeys ==
  {<<97>>, <<109, 108>>, <<109, 109>>,
   [i \in 1..KeyLimit |-> 122], [i \in 1..(KeyLimit + 1) |-> 97]}

\* Values of the model: 0, 1, 255, 256 and 257 bytes.
KvValues ==
  {[i \in 1..n |-> b] : n \in {0, 1, ValueLimit - 1, ValueLimit,
                               ValueLimit + 1},
                        b \in {7, 200}}

\* Lengths of the caller's buffer in retrieve.
BufLens == {1, ValueLimit}

\* BlackPillKeyValueStore::init; is_erased(0, 1024) is inside the region.
KvInit ==
  /\ ~obj.initialized
  /\ obj' = [obj EXCEPT !.initialized = TRUE]
  /\ last_op' = [op |-> "init", index |-> 0, value |-> <<>>]
  /\ ret' = [kind |-> "Ok", data |-> <<>>]
  /\ UNCHANGED <<devframe, shadow>>

\* BlackPillKeyValueStore::store(key, value), the entry's flash erased and
\* blocking_write succeeding.
Store(key, value) ==
  /\ obj.stores < MaxStores
  /\ EntryAddress(key) \notin DOMAIN obj.flash
  /\ LET address == EntryAddress(key)
         ok == /\ obj.initialized
               /\ ~(Len(key) > KeyLimit \/ Len(value) > ValueLimit)
               /\ RangeOk(address, EntrySize)
     IN /\ obj' = [obj EXCEPT
                     !.flash = IF ok
                                 THEN (address :> EntryOf(key, value)) @@ @
                                 ELSE @,
                     !.stores = @ + 1,
                     !.last_store = [key |-> key, value |-> value,
                                    initialized |-> obj.initialized]]
        /\ ret' = [kind |-> IF ok THEN "Ok" ELSE "Err", data |-> <<>>]
        /\ last_op' = [op |-> "store", index |-> address, value |-> key]
  /\ UNCHANGED <<devframe, shadow>>

\* BlackPillKeyValueStore::retrieve(key, buffer)
Retrieve(key, buflen) ==
  /\ ret' = IF obj.initialized
              THEN RetrieveResult(obj.flash, key, buflen)
              ELSE [kind |-> "Err", data |-> <<>>]
  /\ last_op' = [op |-> "retrieve", index |-> buflen, value |-> key]
  /\ UNCHANGED <<devframe, shadow, obj>>

\* BlackPillKeyValueStore::new over an erased storage region
InitKv ==
  /\ IdleDevice
  /\ last_op = NoOp
  /\ ret = [kind |-> "none", data |-> <<>>]
  /\ shadow = <<>>
  /\ obj = [initialized |-> FALSE, flash |-> <<>>, stores |-> 0,
            last_store |-> [key |-> <<>>, value |-> <<>>,
                            initialized |-> FALSE]]

NextKv ==
  \/ KvInit
  \/ \E key \in KvKeys, value \in KvValues : Store(key, value)
  \/ \E key \in KvKeys, buflen \in BufLens : Retrieve(key, buflen)

SpecKv == InitKv /\ [][NextKv]_vars

\* ================================================================== claims
\* Positions at which this boot's read_and_clear has returned.
Decoded ==
  pc \notin {"init_device_and_embassy", "create_rtc", "read_register",
             "write_register"}

\* Positions of the bring-up that follow the dispatch.
AfterDispatch == {"init_led_with_status", "init_usb_and_terminal", "app_run"}

HandoffSteps ==
  <<"disable_interrupts", "deinitialize_rtc", "deinitialize_clocks",
    "clear_pending_interrupts", "jump_to_dfu_bootloader">>

\* Number of times the hand-off was entered in this boot.
HandoffCalls ==
  Len(SelectSeq(handoff_log, LAMBDA e : e = "disable_interrupts"))

\* C1: the task stored by one write is dispatched by at most one boot: a boot
\* whose read follows a completed read_and_clear with no write in between
\* decodes and dispatches None, and no more than one boot dispatches a task
\* for one stored value, resets striking anywhere.
C1_AtMostOnce ==
  /\ dispatch_count <= 1
  /\ (Decoded /\ read_src = "cleared") => boot_task = "None"
  /\ (read_src = "cleared" /\ executed # "none") => executed = "normal"

\* C1 witness: a task was dispatched by an earlier boot and the present boot,
\* reading the cleared slot, has dispatched None.
C1_Witness ==
  /\ dispatch_count = 1
  /\ read_src = "cleared"
  /\ executed = "normal"

\* C2 (as claimed): the read_and_clear that follows write(T) returns T.
C2_RoundTrip ==
  (pc = "execute_boot_task" /\ read_src \in BootTasks) => boot_task = read_src

\* C3 (as claimed): after write(T) the first read_and_clear returns T and a
\* further read_and_clear before the next write returns None.
C3_IdempotentClear ==
  pc = "execute_boot_task" =>
    /\ read_src \in BootTasks => boot_task = read_src
    /\ read_src = "cleared" => boot_task = "None"

\* C4: every raw value other than 0, 1, 2, 3 read from the slot decodes to
\* None.
C4_DecodeTotal ==
  (Decoded /\ raw_value \notin {0, 1, 2, 3}) => boot_task = "None"

\* C4 witness: a boot has decoded the raw value 999.
C4_Witness ==
  /\ pc = "execute_boot_task"
  /\ raw_value = 999
  /\ boot_task = "None"

\* C5 (as claimed): the codes 0, 1, 2, 3 decode to None, UpdateFirmware,
\* RunSelfTest and DFUReboot.
C5_DefinedCodes ==
  Decoded =>
    /\ raw_value = 0 => boot_task = "None"
    /\ raw_value = 1 => boot_task = "UpdateFirmware"
    /\ raw_value = 2 => boot_task = "RunSelfTest"
    /\ raw_value = 3 => boot_task = "DFUReboot"

\* C6: during the bring-up the hand-off is entered only if slot 0 held 3, and
\* a boot that found slot 0 outside {1, 2, 3} takes the arm of a normal boot,
\* raises no error and goes on with the bring-up.
C6_FailSafeBoot ==
  /\ (pc \in AfterDispatch \cup {"execute_boot_task"} /\ handoff_log # <<>>)
       => raw_value = 3
  /\ (Decoded /\ raw_value \notin {1, 2, 3}) =>
       /\ boot_task = "None"
       /\ executed \in {"none", "normal"}
       /\ executed = "normal" => pc \in AfterDispatch \cup {"bootloader"}

\* C6 witness: a boot that found a value outside the defined codes in slot 0
\* has run the normal-boot arm and reached the claim of the indicator.
C6_Witness ==
  /\ pc = "init_led_with_status"
  /\ raw_value = 4
  /\ executed = "normal"

\* C7 (as claimed): the boot that follows write(DFUReboot) and a reset reads
\* DFUReboot and its dispatcher enters the hand-off exactly once.
C7_DfuScenario ==
  read_src = "DFUReboot" =>
    /\ pc = "execute_boot_task" => boot_task = "DFUReboot"
    /\ executed # "none" => HandoffCalls = 1

\* C8 (as claimed): in a boot that was handed DFUReboot no step after the
\* dispatch runs.
C8_DfuNeverReturns ==
  (Decoded /\ raw_value = TaskCode("DFUReboot")) => pc \notin AfterDispatch

C10_JumpPreconditions ==
  pc = "bootloader" =>
    /\ Len(handoff_log) = Len(HandoffSteps)
    /\ handoff_log = HandoffSteps


\* C11 (as claimed): after any call that claims the indicator exactly one
\* handle to the pin exists: the first call returned it, later calls failed.
C11_SingleIndicator ==
  last_op.op \in {"create_led", "init_led"} =>
    /\ handles.led = 1
    /\ ret = "Err" => calls > 1

\* C12 (as claimed): the first claim of the retention registers returns Ok,
\* a second returns the error, and never a second handle.
C12_SingleRetention ==
  /\ handles.rtc <= 1
  /\ last_op.op \in {"create_rtc", "init_rtc"} =>
       \/ ret = "Ok" /\ handles.rtc = 1
       \/ ret = "Err" /\ handles.rtc = 1 /\ calls > 1

\* The resource records of PiPicoDevice and the call that claims each.
Records == {"pin25", "usb", "rtc"}

ClaimOf(field) ==
  CASE field = "pin25" -> "create_led"
    [] field = "usb" -> "create_usb"
    [] field = "rtc" -> "create_rtc"

HandleOf(field) ==
  CASE field = "pin25" -> handles.led
    [] field = "usb" -> handles.usb
    [] field = "rtc" -> handles.rtc

\* C13: every record is Available at construction; a record that a claim has
\* consumed is Consumed from then on; a record changes only in a successful
\* claim of that record, and only from Available to Consumed.
C13_RecordsOneWay ==
  /\ \A f \in Records : dev[f]
  /\ [](platform = "pipico" =>
          \A f \in Records : HandleOf(f) >= 1 => ~dev[f])
  /\ [][\A f \in Records :
          /\ ~dev[f] => ~dev'[f]
          /\ dev[f] # dev'[f] =>
               /\ last_op'.op = ClaimOf(f)
               /\ ret' = "Ok"
               /\ dev[f] /\ ~dev'[f]]_vars

\* A claim of an already consumed record has failed and left it consumed,
\* while another record is still available.
C13_Witness ==
  /\ platform = "pipico"
  /\ last_op.op = "create_led" /\ ret = "Err"
  /\ ~dev.pin25 /\ dev.usb /\ ~dev.rtc

\* C14 (as claimed): get_backup_registers returns the wrapper exactly when an
\* earlier create_rtc succeeded, and nothing otherwise.
C14_WrapperAfterClaim ==
  last_op.op = "get_backup_registers" =>
    (ret = "Some" <=> handles.rtc >= 1)

\* This boot's read_and_clear has read the slot and written the clear.
RacDone == read_src # "none" /\ pc # "write_register"

C16_SynchronousChain ==
  /\ pc \in {"write_register", "execute_boot_task"} =>
       (dev.pin25 /\ dev.usb)
  /\ (read_src = "DFUReboot" /\ executed # "none") =>
       pc \in {HandoffSteps[i] : i \in 1..Len(HandoffSteps)} \cup {"bootloader"}

\* C20: when read_and_clear returns slot 0 holds 0 whatever it held before,
\* and on a slot that held 0 it returns None and the slot still holds 0.
C20_ClearedOnReturn ==
  pc = "execute_boot_task" =>
    /\ registers[BootTaskReg] = 0
    /\ raw_value = 0 => boot_task = "None"

\* C20 witness: read_and_clear has returned the self-test request it found
\* and left 0 in the slot.
C20_Witness ==
  /\ pc = "execute_boot_task"
  /\ raw_value = TaskCode("RunSelfTest")
  /\ boot_task = "RunSelfTest"
  /\ registers[BootTaskReg] = 0

\* The last step was a register call with an index past the bank.
OutOfRange ==
  /\ last_op.op \in {"read_register", "write_register"}
  /\ last_op.index >= Count(platform)

\* C17 (as claimed): a read or write with an index at or past
\* register_count() aborts on every implementation: it returns nothing.
C17_BoundsFailFast == OutOfRange => ret = "Panic"

OtherSlots == (DOMAIN registers) \ {BootTaskReg}

\* C21: write(T) and read_and_clear() leave the boot counter and the reserved
\* slots as they were: no step of a boot, a command or a reset changes a slot
\* other than slot 0.
C21_OtherSlotsUntouched ==
  [][\A i \in OtherSlots : registers'[i] = registers[i]]_vars

\* C21 witness: a stored task has been written and consumed by the next boot
\* while the boot counter slot holds the value it had at power-on.
C21_Witness ==
  /\ pc = "execute_boot_task"
  /\ read_src = "UpdateFirmware"
  /\ registers[BootTaskReg] = 0
  /\ registers[BootCounterReg] = 999

\* C22: for None, UpdateFirmware and RunSelfTest the dispatcher takes the arm
\* of the task, returns to the bring-up, enters no step of the hand-off and
\* writes no register.
C22_DispatcherReturns ==
  [][(pc = "execute_boot_task" /\ pc' # "init_device_and_embassy"
        /\ boot_task \in {"None", "UpdateFirmware", "RunSelfTest"}) =>
       /\ pc' = "init_led_with_status"
       /\ boot_task = "None" => executed' = "normal"
       /\ boot_task = "UpdateFirmware" => executed' = "update_firmware"
       /\ boot_task = "RunSelfTest" => executed' = "self_test"
       /\ handoff_log' = handoff_log
       /\ registers' = registers]_vars

\* C22 witness: the dispatcher has run the firmware-update arm and the boot
\* stands at the claim of the indicator with no hand-off step taken.
C22_Witness ==
  /\ pc = "init_led_with_status"
  /\ boot_task = "UpdateFirmware"
  /\ executed = "update_firmware"
  /\ handoff_log = <<>>

\* C23: the hand-off has no error outcome: at every step before the jump the
\* next step can be taken whatever state the RTC and the clock tree are in,
\* and the only position it ends in is the bootloader.
C23_NoErrorOutcome ==
  /\ pc \in {HandoffSteps[i] : i \in 1..Len(HandoffSteps)} \cup {"bootloader"}
  /\ pc # "bootloader" => ENABLED NextHandoff
  /\ Len(handoff_log) >= 3 =>
       /\ handoff_log[2] = "deinitialize_rtc"
       /\ handoff_log[3] = "deinitialize_clocks"

\* C23 witness: the jump was taken although the RTC was never initialised and
\* the clock tree is still configured after the de-initialisation steps.
C23_Witness ==
  /\ pc = "bootloader"
  /\ ~rtc_initialized
  /\ clocks_configured
  /\ Len(handoff_log) = Len(HandoffSteps)

C25_IndicatorFirst ==
  /\ ~dev.rtc => ~dev.pin25
  /\ ~dev.usb => (~dev.pin25 /\ ~dev.rtc)

\* C25 (amended): the retention registers are claimed first, the indicator
\* next and the serial transport last.
C25_RetentionFirst ==
  /\ ~dev.pin25 => ~dev.rtc
  /\ ~dev.usb => (~dev.pin25 /\ ~dev.rtc)

\* C25 witness: the bring-up stands before the claim of the serial transport
\* with the retention registers and the indicator claimed.
C25_Witness ==
  /\ pc = "init_usb_and_terminal"
  /\ ~dev.rtc /\ ~dev.pin25 /\ dev.usb

\* C26 (as claimed): the slot written by write(T) holds the code of T (0, 1,
\* 2, 3 for None, UpdateFirmware, RunSelfTest, DFUReboot) and decoding the
\* stored code gives T back, for all four variants.
C26_EncodeDecode ==
  slot0_src \in BootTasks =>
    /\ registers[BootTaskReg] = TaskCode(slot0_src)
    /\ TaskCode(slot0_src) \in 0..3
    /\ From_u32(registers[BootTaskReg]) = slot0_src

\* C27 (as claimed): parse gives a command exactly when the whole string
\* equals a keyword ignoring ASCII case, and for every other string, the
\* empty one and the proper prefixes of keywords included, gives Unknown
\* carrying the input text.
C27_ParseExact ==
  last_op.op = "parse" =>
    LET str == last_op.value
        lowered == [i \in 1..Len(str) |-> ToAsciiLowercase(str[i])]
        same == {k \in 1..Len(Keywords) : Keywords[k].text = lowered}
    IN IF same # {}
         THEN \E k \in same : ret = [cmd |-> Keywords[k].cmd, text |-> <<>>]
         ELSE ret = [cmd |-> "Unknown", text |-> str]

\* C28: Packet::new with a payload of any length L stores payload_len =
\* min(L, 32), the first min(L, 32) payload bytes and zeros after them, and
\* payload_data() returns exactly those min(L, 32) bytes.
C28_PayloadClamped ==
  last_op.op = "new" =>
    LET payload == last_op.value
        n == IF Len(payload) <= 32 THEN Len(payload) ELSE 32
    IN /\ ret.payload_len = n
       /\ Len(ret.payload) = 32
       /\ \A i \in 1..32 :
            ret.payload[i] = IF i <= n THEN payload[i] ELSE 0
       /\ PayloadData(ret) = SubSeq(payload, 1, n)

\* C28 witness: Packet::new was given 33 bytes and kept 32.
C28_Witness ==
  /\ last_op.op = "new"
  /\ Len(last_op.value) = 33
  /\ ret.payload_len = 32
  /\ Len(PayloadData(ret)) = 32

\* C29: the packet read back by from_bytes from the bytes of to_bytes equals
\* the packet serialised, field by field.
C29_BytesRoundTrip ==
  last_op.op = "from_bytes" =>
    /\ ret.sender_id = shadow.sender_id
    /\ ret.target_id = shadow.target_id
    /\ ret.sequence_number = shadow.sequence_number
    /\ ret.control = shadow.control
    /\ ret.payload_len = shadow.payload_len
    /\ ret.payload = shadow.payload
    /\ ret = shadow

\* C29 witness: a packet with two flags set and a full payload has gone
\* through to_bytes and from_bytes.
C29_Witness ==
  /\ last_op.op = "from_bytes"
  /\ ret.sender_id = 258
  /\ ret.target_id = 65535
  /\ ret.control = 5
  /\ ret.payload_len = 32

\* C30 (as claimed): the serial transport is handed out at most once: a
\* claim made after an earlier one has taken the peripheral returns the
\* error, the record is consumed as soon as a claim has succeeded, and no
\* second handle to the USB peripheral is produced.
C30_SingleTransport ==
  /\ handles.usb <= 1
  /\ (platform = "pipico" /\ handles.usb = 1) => ~dev.usb
  /\ last_op.op \in {"create_usb", "init_usb"} =>
       /\ handles.usb = 1
       /\ ret = "Err" => calls > 1

\* Position in a log of the first occurrence of a statement, 0 if absent.
PosIn(log, step) ==
  IF \E i \in 1..Len(log) : log[i] = step
    THEN CHOOSE i \in 1..Len(log) :
           log[i] = step /\ \A j \in 1..(i - 1) : log[j] # step
    ELSE 0

\* C31: inside the jump step the stack-pointer value and the entry address
\* are read from the ROM base and base + 4 before the main stack pointer is
\* overwritten, and the stack pointer is overwritten, with the value read
\* from the base, before control goes to the entry address read from
\* base + 4.
C31_JumpOrder ==
  /\ obj.msp # 0 =>
       /\ PosIn(obj.log, "read_stack_ptr") > 0
       /\ PosIn(obj.log, "read_reset_vector") > 0
       /\ PosIn(obj.log, "read_stack_ptr") < PosIn(obj.log, "write_msp")
       /\ PosIn(obj.log, "read_reset_vector") < PosIn(obj.log, "write_msp")
       /\ obj.msp = obj.rom[BootloaderAddr]
  /\ obj.at # 0 =>
       /\ PosIn(obj.log, "write_msp") > 0
       /\ PosIn(obj.log, "write_msp") < PosIn(obj.log, "call_entry")
       /\ obj.msp = obj.rom[BootloaderAddr]
       /\ obj.at = obj.rom[BootloaderAddr + 4]
  /\ pc = "bootloader" => obj.at # 0

\* C31 witness: control is at the entry address read from base + 4, the
\* stack pointer holding the different value read from the base.
C31_Witness ==
  /\ pc = "bootloader"
  /\ obj.rom[BootloaderAddr] = 2
  /\ obj.rom[BootloaderAddr + 4] = 5
  /\ obj.msp = 2
  /\ obj.at = 5

\* The claim operations of the two managers.
ClaimOps ==
  {"create_led", "create_usb", "create_rtc", "init_led", "init_usb",
   "init_rtc"}

C33_NoInputLost == obj.received = obj.returned \o obj.command_buffer

\* C34: USB log messages are dequeued in the order they were queued and each
\* accepted message exactly once: the messages dequeued so far followed by
\* the messages in the queue are the accepted messages in order; a dequeue on
\* an empty queue returns None and changes nothing.
C34_Fifo ==
  /\ [](obj.accepted =
          obj.dequeued \o Pending(obj.queue, obj.head, obj.tail))
  /\ [][(last_op'.op = "dequeue_usb_log_message" /\ obj.head = obj.tail)
          => (ret'.kind = "None" /\ obj' = obj)]_vars
  /\ [][(last_op'.op = "dequeue_usb_log_message" /\ obj.head # obj.tail)
          => (/\ ret'.kind = "Some"
              /\ ret'.msg = Head(Pending(obj.queue, obj.head, obj.tail))
              /\ obj'.dequeued = Append(obj.dequeued, ret'.msg))]_vars

\* C34 witness: the sixteenth message was dequeued, both indices having
\* wrapped around the end of the array, the seventeenth queued behind it.
C34_Witness ==
  /\ last_op.op = "dequeue_usb_log_message"
  /\ ret.kind = "Some"
  /\ ret.msg = UsbLogQueueSize
  /\ Len(obj.dequeued) = UsbLogQueueSize
  /\ obj.tail = 0
  /\ obj.head = 1
  /\ Pending(obj.queue, obj.head, obj.tail) = <<UsbLogQueueSize + 1>>

\* C35: the queue never holds more than 15 messages, head and tail stay in
\* 0..15, and queueing while 15 messages are pending drops the new message
\* and leaves the queued messages and both indices unchanged.
C35_QueueBounded ==
  /\ [](/\ obj.head \in 0..(UsbLogQueueSize - 1)
        /\ obj.tail \in 0..(UsbLogQueueSize - 1)
        /\ Len(obj.accepted) - Len(obj.dequeued) <= UsbLogQueueSize - 1
        /\ Cardinality({i \in DOMAIN obj.queue : obj.queue[i] # 0})
             <= UsbLogQueueSize - 1)
  /\ [][(/\ last_op'.op = "queue_usb_log_str"
         /\ Len(obj.accepted) - Len(obj.dequeued) = UsbLogQueueSize - 1)
          => obj' = obj]_vars

\* C35 witness: a message that fits was queued with 15 messages pending.
C35_Witness ==
  /\ last_op.op = "queue_usb_log_str"
  /\ last_op.value = UsbLogMessageSize
  /\ Len(obj.accepted) - Len(obj.dequeued) = UsbLogQueueSize - 1
  /\ Len(Pending(obj.queue, obj.head, obj.tail)) = UsbLogQueueSize - 1
  /\ obj.tail # 0

\* C36: is_connected() is true exactly when init() or wait_connection() has
\* completed and no USB read or write has failed since the last completed
\* wait; while it is false, write_logs, write_bytes and read_bytes return an
\* error and hand no packet to the USB class.
C36_ConnectedExactly ==
  /\ [](IsConnected(obj) = obj.live)
  /\ [][(/\ ~IsConnected(obj)
         /\ last_op'.op \in {"write_logs", "write_bytes", "read_bytes"})
          => (ret' = "Err" /\ obj'.transfers = obj.transfers)]_vars

\* C36 witness: after a completed wait and successful transfers a read
\* failed, and the write that followed was refused with no transfer.
C36_Witness ==
  /\ obj.initialized
  /\ ~obj.connected
  /\ ~IsConnected(obj)
  /\ obj.transfers = 3
  /\ obj.waits = 2
  /\ last_op.op = "write_bytes"
  /\ ret = "Err"

\* C37: every command keyword listed in the Help response is recognised by
\* CommandParser::parse: parsing it does not yield Unknown.
C37_HelpKeywordsParse ==
  (last_op.op = "parse" /\ last_op.value \in HelpInputs)
    => ret.cmd # "Unknown"

\* The latest store call was made on an initialised store with a key of 1 to
\* 32 bytes and a value of 0 to 256 bytes.
StoreInRange ==
  /\ obj.last_store.initialized
  /\ obj.stores > 0
  /\ Len(obj.last_store.key) \in 1..KeyLimit
  /\ Len(obj.last_store.value) \in 0..ValueLimit

\* C38: on an initialised store, store(key, value) followed by retrieve(key)
\* returns exactly value for every key of 1 to 32 bytes and every value of 0
\* to 256 bytes: the entry address plus the 300-byte entry stays inside the
\* storage region and the stored 8-bit length equals the value length.
C38_StoreRetrieve ==
  /\ (StoreInRange /\ last_op.op = "store") =>
       /\ last_op.index + EntrySize <= EepromStorageSize
       /\ ret.kind = "Ok"
       /\ obj.flash[last_op.index][ValueLenOffset + 1]
            = Len(obj.last_store.value)
  /\ (/\ StoreInRange
      /\ last_op.op = "retrieve"
      /\ last_op.value = obj.last_store.key
      /\ last_op.index >= Len(obj.last_store.value)) =>
       /\ ret.kind = "Ok"
       /\ ret.data = obj.last_store.value

====
